---- MODULE Spec2Model ----
(***************************************************************************)
(* Model of the paper-ingestion and question-answering service:            *)
(*   src/api/src/server.ts      HTTP handlers, takeNotes and its helpers    *)
(*   src/web/src/pages/index.tsx  qaModel / qaOnPaper (and the web page)    *)
(*                                                                         *)
(* Strings are sequences of one-character strings; a JavaScript number is  *)
(* <<n>> and NaN is <<>>; an optional value is <<>> (absent) or <<v>>.      *)
(***************************************************************************)
EXTENDS Integers, Sequences, FiniteSets, TLC

VARIABLES
    env,      \* process.env: which credentials are set
    papers,   \* PaperStore: url -> <<>> or <<[name, paper, notes]>>
    vectors,  \* VectorIndex: sequence of indexed segments
    qaLog,    \* QA log: sequence of QARecords
    call,     \* per request slot: the handler's and the callee's locals
    nreq,     \* number of requests received so far
    parse,    \* one run of the /take_notes handler's pagesToDelete parsing
    edit,     \* one run of deletePagesFromPdf
    conv,     \* one run of convertPdfToDocuments
    page      \* HomePage: its React state and its fetches in flight

vars == <<env, papers, vectors, qaLog, call, nreq, parse, edit, conv, page>>

(***************************************************************************)
(* Bounds of the model.                                                    *)
(***************************************************************************)
MaxRequests == 2   \* requests received in one behaviour
MaxTokens == 4     \* comma-separated tokens in a pagesToDelete string
MaxPdfPages == 10  \* pages of the document handed to deletePagesFromPdf
MaxDeletions == 2  \* length of the list handed to deletePagesFromPdf

(***************************************************************************)
(* Options, JavaScript numbers, strings.                                   *)
(***************************************************************************)
None == <<>>
Some(v) == <<v>>
IsSome(o) == Len(o) = 1
Get(o) == o[1]

NaN == <<>>
Num(n) == <<n>>
IsNaN(x) == Len(x) = 0
Val(x) == x[1]

Min(a, b) == IF a <= b THEN a ELSE b

Digits == {"0", "1", "2", "3", "4", "5", "6", "7", "8", "9"}

DigitVal(c) ==
    CASE c = "0" -> 0 [] c = "1" -> 1 [] c = "2" -> 2 [] c = "3" -> 3
      [] c = "4" -> 4 [] c = "5" -> 5 [] c = "6" -> 6 [] c = "7" -> 7
      [] c = "8" -> 8 [] c = "9" -> 9

RECURSIVE Join(_, _)
\* Array.prototype.join: the strings of ss with sep between neighbours.
Join(ss, sep) ==
    IF Len(ss) = 0 THEN <<>>
    ELSE IF Len(ss) = 1 THEN ss[1]
    ELSE ss[1] \o sep \o Join(Tail(ss), sep)

RECURSIVE SplitFrom(_, _, _)
\* The pieces of s after the current piece cur, cut at every sep character.
SplitFrom(s, sep, cur) ==
    IF Len(s) = 0 THEN <<cur>>
    ELSE IF Head(s) = sep THEN <<cur>> \o SplitFrom(Tail(s), sep, <<>>)
    ELSE SplitFrom(Tail(s), sep, Append(cur, Head(s)))

\* String.prototype.split(","): always at least one piece.
Split(s, sep) == SplitFrom(s, sep, <<>>)

RECURSIVE TrimStart(_)
TrimStart(s) ==
    IF Len(s) > 0 /\ Head(s) = " " THEN TrimStart(Tail(s)) ELSE s

RECURSIVE TrimEnd(_)
TrimEnd(s) ==
    IF Len(s) > 0 /\ s[Len(s)] = " " THEN TrimEnd(SubSeq(s, 1, Len(s) - 1)) ELSE s

\* String.prototype.trim
Trim(s) == TrimStart(TrimEnd(s))

RECURSIVE DigitPrefix(_, _, _)
\* The value of the longest prefix of decimal digits of s; acc is the value
\* read so far and seen says whether a digit was read.
DigitPrefix(s, acc, seen) ==
    IF Len(s) > 0 /\ Head(s) \in Digits
    THEN DigitPrefix(Tail(s), 10 * acc + DigitVal(Head(s)), TRUE)
    ELSE IF seen THEN Num(acc) ELSE NaN

\* parseInt(s): leading blanks skipped, an optional sign, then the longest
\* run of digits; NaN when there is no digit; what follows is ignored.
ParseInt(s) ==
    LET t == TrimStart(s)
        neg == Len(t) > 0 /\ Head(t) = "-"
        signed == Len(t) > 0 /\ Head(t) \in {"-", "+"}
        mag == DigitPrefix(IF signed THEN Tail(t) ELSE t, 0, FALSE)
    IN  IF IsNaN(mag) THEN NaN
        ELSE IF neg THEN Num(0 - Val(mag)) ELSE mag

ParseTrimmed(tok) == ParseInt(Trim(tok))

\* server.ts processPagesToDelete: split, trim, parseInt; nothing is dropped.
processPagesToDelete(pagesToDelete) ==
    LET pieces == Split(pagesToDelete, ",")
    IN  [i \in 1..Len(pieces) |-> ParseTrimmed(pieces[i])]

\* index.tsx processPagesToDelete: as above, then only the positive numbers.
webProcessPagesToDelete(pagesToDelete) ==
    IF Len(pagesToDelete) = 0 THEN <<>>
    ELSE LET pieces == Split(pagesToDelete, ",")
         IN  SelectSeq([i \in 1..Len(pieces) |-> ParseTrimmed(pieces[i])],
                       LAMBDA n : ~IsNaN(n) /\ Val(n) > 0)

\* The /take_notes handler's argument for takeNotes: pagesToDelete is the
\* optional body field; a missing or empty string gives the empty list.
HandlerPagesArray(pagesToDelete) ==
    IF IsSome(pagesToDelete) /\ Len(Get(pagesToDelete)) > 0
    THEN processPagesToDelete(Get(pagesToDelete))
    ELSE <<>>

(***************************************************************************)
(* deletePagesFromPdf.  A document is the sequence of its pages.           *)
(***************************************************************************)
\* pdf-lib removePage(index): the index must be an integer in
\* 0 .. pageCount-1, otherwise it throws.
RemovePageOkMutant(doc, idx) == ~IsNaN(idx)

\* PDFDocument.removePage(index) throws unless 0 <= index <= pageCount - 1.
RemovePageOk(doc, idx) == ~IsNaN(idx) /\ Val(idx) >= 0 /\ Val(idx) <= Len(doc) - 1

RemovePage(doc, idx) ==
    [i \in 1..(Len(doc) - 1) |-> IF i <= Val(idx) THEN doc[i] ELSE doc[i + 1]]

OffsetIndexMutant(pageNumber, numToOffsetBy) ==
    IF IsNaN(pageNumber) THEN NaN ELSE Num(Val(pageNumber) - 1)

\* pageNumber - numToOffsetBy in JavaScript arithmetic.
OffsetIndex(pageNumber, numToOffsetBy) ==
    IF IsNaN(pageNumber) THEN NaN ELSE Num(Val(pageNumber) - numToOffsetBy)

RECURSIVE DeleteLoop(_, _, _)
\* The for loop of deletePagesFromPdf; the result is [ok, doc], ok = FALSE
\* when removePage threw.
DeleteLoop(doc, pagesToDelete, numToOffsetBy) ==
    IF Len(pagesToDelete) = 0 THEN [ok |-> TRUE, doc |-> doc]
    ELSE LET idx == OffsetIndex(Head(pagesToDelete), numToOffsetBy)
         IN  IF RemovePageOk(doc, idx)
             THEN DeleteLoop(RemovePage(doc, idx), Tail(pagesToDelete), numToOffsetBy + 1)
             ELSE [ok |-> FALSE, doc |-> doc]

deletePagesFromPdf(pdf, pagesToDelete) == DeleteLoop(pdf, pagesToDelete, 1)

(***************************************************************************)
(* The world the service runs in.                                          *)
(***************************************************************************)
Slots == {"r1", "r2"}          \* requests the server is handling at once
Urls == {"u1", "u2"}
Names == {"P", "Q"}
NL == "\n"

\* The PDF behind each URL: its pages, each with its number and its text
\* (the empty text is a page with no text layer).
PdfAt(u) ==
    IF u = "u1"
    THEN << [no |-> 1, text |-> <<"a">>], [no |-> 2, text |-> <<>>],
            [no |-> 3, text |-> <<"b">>] >>
    ELSE << [no |-> 1, text |-> <<>>] >>

\* The pagesToDelete string a client sends: "1,3" (on u1 it leaves the page
\* without text, on u2 it asks for a page the document does not have).
PageStrings == { <<"1", ",", "3">> }

\* What the notes model call can resolve to: no note at all, or one note.
NoteOutputs ==
    { <<>>,
      << [note |-> "n1", pageNumbers |-> <<1>>] >> }

\* What the answer model call can resolve to: one or two groupings.
AnswerOutputs ==
    { << [answer |-> "a1", followupQuestions |-> <<"f1">>] >>,
      << [answer |-> "a1", followupQuestions |-> <<"f1">>],
         [answer |-> "a2", followupQuestions |-> <<>>] >> }

TakeNotesBodies ==
    [paperUrl : {None} \cup {Some(u) : u \in Urls},
     name : {None} \cup {Some(n) : n \in Names},
     pagesToDelete : {None} \cup {Some(p) : p \in PageStrings},
     question : {None}]

QaBodies ==
    [paperUrl : {None} \cup {Some(u) : u \in Urls},
     name : {None},
     pagesToDelete : {None},
     question : {None, Some("q")}]

(***************************************************************************)
(* Documents.                                                              *)
(***************************************************************************)
Doc(content, source) == [pageContent |-> content, source |-> source, url |-> None]

\* langchain formatDocumentsAsString: the contents joined by a blank line.
formatDocumentsAsString(documents) ==
    Join([i \in 1..Len(documents) |-> documents[i].pageContent], <<NL, NL>>)

\* PDFLoader: one document per page that has text.
LocalParse(pdf) ==
    LET withText == SelectSeq(pdf, LAMBDA pg : Len(pg.text) > 0)
    IN  [i \in 1..Len(withText) |-> Doc(withText[i].text, "pdf")]

\* UnstructuredLoader: the service's elements, one per page that has text.
UnstructuredParse(pdf) ==
    LET withText == SelectSeq(pdf, LAMBDA pg : Len(pg.text) > 0)
    IN  [i \in 1..Len(withText) |-> Doc(withText[i].text, "unstructured")]

\* takeNotes: documents.map(doc => ({...doc, metadata: {..., url: paperUrl}}))
NewDocs(documents, paperUrl) ==
    [i \in 1..Len(documents) |-> [documents[i] EXCEPT !.url = Some(paperUrl)]]

(***************************************************************************)
(* A request slot: the handler's locals, the callee's locals, and the log  *)
(* of collaborator invocations the call made (op, and whether it           *)
(* succeeded).                                                             *)
(***************************************************************************)
EmptyBody == [paperUrl |-> None, name |-> None, pagesToDelete |-> None, question |-> None]

IdleCall ==
    [kind |-> "idle", pc |-> "idle", body |-> EmptyBody,
     pagesToDelete |-> <<>>,     \* takeNotes argument
     existingPaper |-> None,     \* takeNotes: result of getPaper
     pdf |-> <<>>,               \* pdfAsBuffer
     documents |-> <<>>,         \* extracted / retrieved documents
     notes |-> <<>>,             \* generated notes, or the paper's notes in qaOnPaper
     staged |-> FALSE,           \* the staging file of convertPdfToDocuments exists
     paper |-> None,             \* qaOnPaper: result of getPaper
     modelDocs |-> None,         \* qaOnPaper: the documents handed to qaModel
     answers |-> <<>>,           \* answerAndQuestions
     pending |-> {},             \* indices of saveQa calls in flight
     outcome |-> None,           \* how the callee's promise settled
     responses |-> <<>>,         \* HTTP responses sent for this request
     trace |-> <<>>]

Ok(value) == Some([ok |-> TRUE, value |-> value, error |-> ""])
Err(msg) == Some([ok |-> FALSE, value |-> <<>>, error |-> msg])

Respond(c, status, error, data) ==
    [c EXCEPT !.responses = Append(@, [status |-> status, error |-> error, data |-> data]),
              !.pc = "done"]

\* The callee returns: its promise resolves and the handler, resumed in the
\* same turn, sends res.status(200).send(value)  (server.ts 32-34, 49-51).
Return(c, value) == Respond([c EXCEPT !.outcome = Ok(value)], 200, "", value)

ThrowMutant(c, msg) == Respond([c EXCEPT !.outcome = Err(msg)], 200, msg, <<>>)

\* The callee throws: its promise rejects and the handler's catch block sends
\* res.status(500).json({error: err.message})  (server.ts 35-38, 52-55).
Throw(c, msg) == Respond([c EXCEPT !.outcome = Err(msg)], 500, msg, <<>>)

Invoked(c, op, ok) == [c EXCEPT !.trace = Append(@, [op |-> op, ok |-> ok])]
Goto(c, pc) == [c EXCEPT !.pc = pc]

Url(c) == Get(c.body.paperUrl)

\* A finished request whose slot can be cleared.
Releasable(s) == call[s].pc = "done" /\ call[s].pending = {}

\* A request can arrive: the slot is the first free one (the slots are
\* interchangeable) and no finished request waits to be cleared.
CanReceive(s) ==
    /\ call[s].kind = "idle"
    /\ s = "r1" \/ call["r1"].kind # "idle"
    /\ nreq < MaxRequests

\* The server takes its next step only once finished requests are cleared
\* (clearing a slot is bookkeeping of the model, not a step of the server).
Running == \A s \in Slots : ~Releasable(s)

\* POST /take_notes, up to the first await of takeNotes (server.ts 21-32).
HandlerTakeNotes(s) ==
    /\ Running
    /\ CanReceive(s)
    /\ \E body \in TakeNotesBodies :
         LET c == [IdleCall EXCEPT !.kind = "take_notes", !.body = body] IN
         call' = [call EXCEPT ![s] =
           IF ~IsSome(body.paperUrl) \/ ~IsSome(body.name)
           THEN Respond(c, 400, "Missing required fields: paperUrl, name", <<>>)
           ELSE [c EXCEPT !.pagesToDelete = HandlerPagesArray(body.pagesToDelete),
                          !.pc = "tn_start"]]
    /\ nreq' = nreq + 1
    /\ UNCHANGED <<env, papers, vectors, qaLog, parse, edit, conv, page>>

\* The request is over and its slot is free again.
Release(s) ==
    /\ Releasable(s)
    /\ call' = [call EXCEPT ![s] = IdleCall]
    /\ UNCHANGED <<env, papers, vectors, qaLog, nreq, parse, edit, conv, page>>

(***************************************************************************)
(* takeNotes (server.ts 187-261).                                          *)
(***************************************************************************)
\* SupabaseDatabase.getPaper: the record stored at url, or nothing.
getPaper(store, url) == store[url]

AfterLookupMutant(c, existingPaper) ==
    Goto([c EXCEPT !.existingPaper = existingPaper], "tn_fetch")

\* if (existingPaper) return existingPaper.notes  (196-199)
AfterLookup(c, existingPaper) ==
    IF IsSome(existingPaper)
    THEN Return([c EXCEPT !.existingPaper = existingPaper], Get(existingPaper).notes)
    ELSE Goto([c EXCEPT !.existingPaper = existingPaper], "tn_fetch")

MissingCredentialMutant(e) == FALSE

\* if (!process.env.OPENAI_API_KEY)  (192)
MissingCredential(e) == ~e.OPENAI_API_KEY

\* The credential check, the store connection and the existence check.
TN_Start(s) ==
    LET c == call[s] IN
    /\ Running
    /\ c.pc = "tn_start"
    /\ \E connected \in BOOLEAN :
         call' = [call EXCEPT ![s] =
           IF MissingCredential(env) THEN Throw(c, "Missing OPENAI_API_KEY")
           ELSE IF ~connected THEN Throw(Invoked(c, "fromExistingIndex", FALSE), "raw_store_error")
           ELSE AfterLookup(Invoked(c, "getPaper", TRUE), getPaper(papers, Url(c)))]
    /\ UNCHANGED <<env, papers, vectors, qaLog, nreq, parse, edit, conv, page>>

\* loadPdfFromUrl (88-113, 201-206): the bytes, or download_pdf_failed.
TN_Fetch(s) ==
    LET c == call[s] IN
    /\ Running
    /\ c.pc = "tn_fetch"
    /\ \E loaded \in BOOLEAN :
         call' = [call EXCEPT ![s] =
           IF ~loaded THEN Throw(Invoked(c, "fetch", FALSE), "download_pdf_failed")
           ELSE Goto([Invoked(c, "fetch", TRUE) EXCEPT !.pdf = PdfAt(Url(c))],
                     IF Len(c.pagesToDelete) > 0 THEN "tn_edit" ELSE "tn_extract")]
    /\ UNCHANGED <<env, papers, vectors, qaLog, nreq, parse, edit, conv, page>>

\* The edit step (208-215); PDFDocument.load may reject the bytes.
TN_Edit(s) ==
    LET c == call[s]
        r == deletePagesFromPdf(c.pdf, c.pagesToDelete)
    IN
    /\ Running
    /\ c.pc = "tn_edit"
    /\ \E loads \in BOOLEAN :
         call' = [call EXCEPT ![s] =
           IF loads /\ r.ok
           THEN Goto([Invoked(c, "deletePages", TRUE) EXCEPT !.pdf = r.doc], "tn_extract")
           ELSE Throw(Invoked(c, "deletePages", FALSE), "pdf_edit_failed")]
    /\ UNCHANGED <<env, papers, vectors, qaLog, nreq, parse, edit, conv, page>>

\* How the Unstructured call raced against the 60 s timer ends (160-165).
TierOutcomes == {"ok", "error", "timeout"}

StagedAfterCatchMutant(unlink3) == TRUE

\* The last catch block (181-184): unlink(pdfPath).catch(() => undefined)
\* leaves the staging file behind exactly when that unlink fails.
StagedAfterCatch(unlink3) == ~unlink3

\* convertPdfToDocuments (148-185).  wrote: writeFile succeeded; tier1: how
\* the Unstructured call against the 60 s timer ended; local: PDFLoader
\* succeeded; unlink1/2/3: the unlink after tier 1, after the local parser,
\* and in the last catch block succeeded.  ranLocal: PDFLoader was started;
\* tier1Outstanding: the Unstructured call, which lost the race against the
\* timer and which nothing cancels, was still running when PDFLoader started.
convertPdfToDocuments(pdf, hasKey, wrote, tier1, unlink1, local, unlink2, unlink3) ==
    IF ~wrote
    THEN [ok |-> FALSE, documents |-> <<>>, error |-> "raw_write_error", staged |-> FALSE,
          ranLocal |-> FALSE, tier1Outstanding |-> FALSE]
    ELSE IF hasKey /\ tier1 = "ok" /\ unlink1
    THEN [ok |-> TRUE, documents |-> UnstructuredParse(pdf), error |-> "", staged |-> FALSE,
          ranLocal |-> FALSE, tier1Outstanding |-> FALSE]
    ELSE IF local /\ unlink2
    THEN [ok |-> TRUE, documents |-> LocalParse(pdf), error |-> "", staged |-> FALSE,
          ranLocal |-> TRUE, tier1Outstanding |-> hasKey /\ tier1 = "timeout"]
    ELSE [ok |-> FALSE, documents |-> <<>>, error |-> "pdf_parse_failed",
          staged |-> StagedAfterCatch(unlink3),
          ranLocal |-> TRUE, tier1Outstanding |-> hasKey /\ tier1 = "timeout"]

\* The extraction step (217-222).
TN_Extract(s) ==
    LET c == call[s] IN
    /\ Running
    /\ c.pc = "tn_extract"
    /\ \E wrote, unlink1, local, unlink2, unlink3 \in BOOLEAN :
         \E tier1 \in TierOutcomes :
           LET r == convertPdfToDocuments(c.pdf, env.UNSTRUCTURED_API_KEY, wrote, tier1,
                                          unlink1, local, unlink2, unlink3)
           IN  call' = [call EXCEPT ![s] =
                 IF r.ok
                 THEN Goto([Invoked(c, "extract", TRUE) EXCEPT !.documents = r.documents,
                                                               !.staged = r.staged],
                           "tn_generate")
                 ELSE Throw([Invoked(c, "extract", FALSE) EXCEPT !.staged = r.staged],
                            r.error)]
    /\ UNCHANGED <<env, papers, vectors, qaLog, nreq, parse, edit, conv, page>>

AfterGenerateFailureMutant(c) == Goto(c, "tn_persist")

\* catch around generateNotes (227-230)
AfterGenerateFailure(c) == Throw(c, "openai_failed")

\* generateNotes (129-146, 224-230): the chain's parsed output, as it is.
TN_Generate(s) ==
    LET c == call[s] IN
    /\ Running
    /\ c.pc = "tn_generate"
    /\ \/ call' = [call EXCEPT ![s] = AfterGenerateFailure(Invoked(c, "generate", FALSE))]
       \/ \E response \in NoteOutputs :
            call' = [call EXCEPT ![s] =
              Goto([Invoked(c, "generate", TRUE) EXCEPT !.notes = response], "tn_persist")]
    /\ UNCHANGED <<env, papers, vectors, qaLog, nreq, parse, edit, conv, page>>

\* SupabaseDatabase.addPaper: the record at url is the one given.
addPaper(store, record) ==
    [store EXCEPT ![record.url] =
        Some([name |-> record.name, paper |-> record.paper, notes |-> record.notes])]

AfterAddPaperFailureMutant(c) == Goto(c, "tn_index")

\* catch around addPaper (248-251)
AfterAddPaperFailure(c) == Throw(c, "database_failed")

PaperRecordMutant(c) ==
    [paper |-> formatDocumentsAsString(NewDocs(c.documents, Url(c))),
     url |-> Url(c), notes |-> <<>>, name |-> Get(c.body.name)]

\* The argument of addPaper (232-247).
PaperRecord(c) ==
    [paper |-> formatDocumentsAsString(NewDocs(c.documents, Url(c))),
     url |-> Url(c), notes |-> c.notes, name |-> Get(c.body.name)]

\* Save the paper (232-251).
TN_Persist(s) ==
    LET c == call[s] IN
    /\ Running
    /\ c.pc = "tn_persist"
    /\ \/ /\ papers' = addPaper(papers, PaperRecord(c))
          /\ call' = [call EXCEPT ![s] = Goto(Invoked(c, "addPaper", TRUE), "tn_index")]
       \/ /\ papers' = papers
          /\ call' = [call EXCEPT ![s] = AfterAddPaperFailure(Invoked(c, "addPaper", FALSE))]
    /\ UNCHANGED <<env, vectors, qaLog, nreq, parse, edit, conv, page>>

\* vectorStore.addDocuments: one entry per document, tagged with its url.
addDocuments(index, docs) ==
    index \o [i \in 1..Len(docs) |-> [url |-> Get(docs[i].url),
                                      pageContent |-> docs[i].pageContent]]

AfterIndexFailureMutant(c) == Throw(c, "index_failed")

\* catch around addDocuments, then return notes (256-260)
AfterIndexFailure(c) == Return(c, c.notes)

\* Best-effort vectorization and the return (253-260).
TN_Index(s) ==
    LET c == call[s]
        newDocs == NewDocs(c.documents, Url(c))
    IN
    /\ Running
    /\ c.pc = "tn_index"
    /\ \/ /\ vectors' = addDocuments(vectors, newDocs)
          /\ call' = [call EXCEPT ![s] = Return(Invoked(c, "addDocuments", TRUE), c.notes)]
       \/ /\ vectors' = vectors
          /\ call' = [call EXCEPT ![s] = AfterIndexFailure(Invoked(c, "addDocuments", FALSE))]
    /\ UNCHANGED <<env, papers, qaLog, nreq, parse, edit, conv, page>>

(***************************************************************************)
(* POST /qa and qaOnPaper (server.ts 41-56, index.tsx 306-375).            *)
(***************************************************************************)
SimilarityK == 8

\* JavaScript truthiness: every array is truthy, a string unless empty.
TruthyArray(a) == TRUE
TruthyString(str) == Len(str) > 0

\* POST /qa, up to the first await of qaOnPaper (server.ts 41-49).
HandlerQa(s) ==
    /\ Running
    /\ CanReceive(s)
    /\ \E body \in QaBodies :
         LET c == [IdleCall EXCEPT !.kind = "qa", !.body = body] IN
         call' = [call EXCEPT ![s] =
           IF ~IsSome(body.paperUrl) \/ ~IsSome(body.question)
           THEN Respond(c, 400, "Missing required fields: paperUrl, question", <<>>)
           ELSE Goto(c, "qa_search")]
    /\ nreq' = nreq + 1
    /\ UNCHANGED <<env, papers, vectors, qaLog, parse, edit, conv, page>>

\* vectorStore.similaritySearch(question, k, {url}): at most k of the
\* entries indexed for url.
similaritySearch(index, k, url) ==
    LET hits == SelectSeq(index, LAMBDA e : e.url = url)
    IN  [i \in 1..Min(Len(hits), k) |->
            [pageContent |-> hits[i].pageContent, source |-> "vector", url |-> Some(url)]]

\* The store connection and the retrieval attempt (336-344).
QA_Search(s) ==
    LET c == call[s] IN
    /\ Running
    /\ c.pc = "qa_search"
    /\ \E connected, searched \in BOOLEAN :
         call' = [call EXCEPT ![s] =
           IF ~connected THEN Throw(Invoked(c, "fromExistingIndex", FALSE), "raw_store_error")
           ELSE IF ~searched
           THEN Goto([Invoked(c, "similaritySearch", FALSE) EXCEPT !.documents = <<>>],
                     "qa_load")
           ELSE Goto([Invoked(c, "similaritySearch", TRUE)
                        EXCEPT !.documents = similaritySearch(vectors, SimilarityK, Url(c))],
                     "qa_load")]
    /\ UNCHANGED <<env, papers, vectors, qaLog, nreq, parse, edit, conv, page>>

\* !paper?.notes  (347)
NoNotes(paper) == ~IsSome(paper) \/ ~TruthyArray(Get(paper).notes)

\* The fallback to the stored text (352-361).
FallbackDocuments(documents, paper) ==
    IF Len(documents) = 0 /\ TruthyString(paper.paper)
    THEN << Doc(paper.paper, "supabase-paper-fallback") >>
    ELSE documents

\* Load the paper and choose the documents (346-361).
QA_Load(s) ==
    LET c == call[s]
        paper == getPaper(papers, Url(c))
    IN
    /\ Running
    /\ c.pc = "qa_load"
    /\ call' = [call EXCEPT ![s] =
         IF NoNotes(paper)
         THEN Throw([Invoked(c, "getPaper", TRUE) EXCEPT !.paper = paper], "No notes found")
         ELSE Goto([Invoked(c, "getPaper", TRUE)
                      EXCEPT !.paper = paper,
                             !.notes = Get(paper).notes,
                             !.documents = FallbackDocuments(c.documents, Get(paper))],
                   "qa_model")]
    /\ UNCHANGED <<env, papers, vectors, qaLog, nreq, parse, edit, conv, page>>

\* qaModel (306-333, 363): the chain's parsed output, or its error.
QA_Model(s) ==
    LET c == call[s]
        asked == [Invoked(c, "qaModel", TRUE) EXCEPT !.modelDocs = Some(c.documents)]
    IN
    /\ Running
    /\ c.pc = "qa_model"
    /\ \/ call' = [call EXCEPT ![s] =
            Throw([Invoked(c, "qaModel", FALSE) EXCEPT !.modelDocs = Some(c.documents)],
                  "raw_model_error")]
       \/ \E response \in AnswerOutputs :
            call' = [call EXCEPT ![s] =
              Goto([asked EXCEPT !.answers = response, !.pending = 1..Len(response)],
                   "qa_save")]
    /\ UNCHANGED <<env, papers, vectors, qaLog, nreq, parse, edit, conv, page>>

\* SupabaseDatabase.saveQa: one more record in the log.
saveQa(log, question, answer, context, followupQuestions) ==
    Append(log, [question |-> question, answer |-> answer, context |-> context,
                 followupQuestions |-> followupQuestions])

SavedContextMutant(c) == <<>>

\* The context argument of saveQa (index.tsx 369).
SavedContext(c) == formatDocumentsAsString(c.documents)

\* One of the saveQa calls started by Promise.all settles (364-374).  The
\* first rejection rejects qaOnPaper while the other calls go on; when the
\* last call resolves and none has rejected, qaOnPaper returns.
QA_SaveQa(s) ==
    LET c == call[s] IN
    /\ Running
    /\ c.pending # {}
    /\ \E i \in c.pending :
         LET left == [c EXCEPT !.pending = @ \ {i}] IN
         \/ /\ qaLog' = saveQa(qaLog, Get(c.body.question), c.answers[i].answer,
                               SavedContext(c),
                               c.answers[i].followupQuestions)
            /\ call' = [call EXCEPT ![s] =
                 IF left.pending = {} /\ c.pc = "qa_save"
                 THEN Return(Invoked(left, "saveQa", TRUE), c.answers)
                 ELSE Invoked(left, "saveQa", TRUE)]
         \/ /\ qaLog' = qaLog
            /\ call' = [call EXCEPT ![s] =
                 IF c.pc = "qa_save"
                 THEN Throw(Invoked(left, "saveQa", FALSE), "raw_save_error")
                 ELSE Invoked(left, "saveQa", FALSE)]
    /\ UNCHANGED <<env, papers, vectors, nreq, parse, edit, conv, page>>

(***************************************************************************)
(* The server.                                                             *)
(***************************************************************************)
\* HomePage before anything is submitted (index.tsx 49-58); notesReq and
\* qaReq are the fetches of onPaperSubmit and onQuestionSubmit in flight.
PageIdle ==
    [submittedPaperData |-> None, notes |-> None, answers |-> None,
     notesLoading |-> FALSE, qaLoading |-> FALSE,
     notesError |-> None, qaError |-> None,
     notesReq |-> None, qaReq |-> None]
ParseIdle == [pagesToDelete |-> None, pc |-> "idle", handed |-> <<>>]
ConvIdle ==
    [pc |-> "idle", pdf |-> <<>>, hasKey |-> FALSE, wrote |-> FALSE, tier1 |-> "ok",
     unlink1 |-> FALSE, local |-> FALSE, unlink2 |-> FALSE, unlink3 |-> FALSE,
     result |-> None]
EditIdle ==
    [pdf |-> <<>>, pagesToDelete |-> <<>>, pc |-> "idle", ok |-> FALSE, doc |-> <<>>,
     error |-> ""]

Init ==
    /\ env \in [OPENAI_API_KEY : BOOLEAN, UNSTRUCTURED_API_KEY : BOOLEAN]
    /\ papers = [u \in Urls |-> None]
    /\ vectors = <<>>
    /\ qaLog = <<>>
    /\ call = [s \in Slots |-> IdleCall]
    /\ nreq = 0
    /\ parse = ParseIdle
    /\ edit = EditIdle
    /\ conv = ConvIdle
    /\ page = PageIdle

Next ==
    \E s \in Slots :
        \/ HandlerTakeNotes(s)
        \/ HandlerQa(s)
        \/ Release(s)
        \/ TN_Start(s)
        \/ TN_Fetch(s)
        \/ TN_Edit(s)
        \/ TN_Extract(s)
        \/ TN_Generate(s)
        \/ TN_Persist(s)
        \/ TN_Index(s)
        \/ QA_Search(s)
        \/ QA_Load(s)
        \/ QA_Model(s)
        \/ QA_SaveQa(s)

Spec == Init /\ [][Next]_vars

(***************************************************************************)
(* The /take_notes handler's parsing of pagesToDelete, on its own.         *)
(***************************************************************************)
\* Tokens a client may put between the commas.
Tokens ==
    { <<"1">>, <<" ", "x">>, <<" ", "-", "2">>, <<" ", "4">>, <<>>, <<"0">>,
      <<"1", "2", "x", " ">> }

TokenSeqs == UNION { [1..n -> Tokens] : n \in 1..MaxTokens }

PagesToDeleteInputs == {None} \cup { Some(Join(ts, <<",">>)) : ts \in TokenSeqs }

InitParse ==
    /\ env = [OPENAI_API_KEY |-> TRUE, UNSTRUCTURED_API_KEY |-> TRUE]
    /\ papers = [u \in Urls |-> None]
    /\ vectors = <<>>
    /\ qaLog = <<>>
    /\ call = [s \in Slots |-> IdleCall]
    /\ nreq = 0
    /\ edit = EditIdle
    /\ conv = ConvIdle
    /\ page = PageIdle
    /\ \E p \in PagesToDeleteInputs :
         parse = [pagesToDelete |-> p, pc |-> "received", handed |-> <<>>]

\* server.ts 29-32: the list the handler hands to takeNotes.
ParsePages ==
    /\ parse.pc = "received"
    /\ parse' = [parse EXCEPT !.pc = "called",
                              !.handed = HandlerPagesArray(parse.pagesToDelete)]
    /\ UNCHANGED <<env, papers, vectors, qaLog, call, nreq, edit, conv, page>>

NextParse == ParsePages

SpecParse == InitParse /\ [][NextParse]_vars

(***************************************************************************)
(* deletePagesFromPdf, on its own.                                         *)
(***************************************************************************)
\* The page numbers a caller may pass: NaN and the integers around 1..n.
PageArgs == {NaN} \cup { Num(k) : k \in (0 - 1)..(MaxPdfPages + 1) }

PageLists == UNION { [1..n -> PageArgs] : n \in 0..MaxDeletions }

InitEdit ==
    /\ env = [OPENAI_API_KEY |-> TRUE, UNSTRUCTURED_API_KEY |-> TRUE]
    /\ papers = [u \in Urls |-> None]
    /\ vectors = <<>>
    /\ qaLog = <<>>
    /\ call = [s \in Slots |-> IdleCall]
    /\ nreq = 0
    /\ parse = ParseIdle
    /\ conv = ConvIdle
    /\ page = PageIdle
    /\ \E n \in 1..MaxPdfPages : \E pages \in PageLists :
         edit = [pdf |-> [i \in 1..n |-> i], pagesToDelete |-> pages,
                 pc |-> "start", ok |-> FALSE, doc |-> <<>>, error |-> ""]

\* One call of deletePagesFromPdf on a document whose pages are 1..n, inside
\* the try block of takeNotes (208-215) that turns its exception into
\* pdf_edit_failed.
EditPages ==
    LET r == deletePagesFromPdf(edit.pdf, edit.pagesToDelete) IN
    /\ edit.pc = "start"
    /\ edit' = [edit EXCEPT !.pc = "done", !.ok = r.ok, !.doc = r.doc,
                            !.error = IF r.ok THEN "" ELSE "pdf_edit_failed"]
    /\ UNCHANGED <<env, papers, vectors, qaLog, call, nreq, parse, conv, page>>

NextEdit == EditPages

SpecEdit == InitEdit /\ [][NextEdit]_vars

(***************************************************************************)
(* convertPdfToDocuments, on its own.                                      *)
(***************************************************************************)
InitExtract ==
    /\ env = [OPENAI_API_KEY |-> TRUE, UNSTRUCTURED_API_KEY |-> TRUE]
    /\ papers = [u \in Urls |-> None]
    /\ vectors = <<>>
    /\ qaLog = <<>>
    /\ call = [s \in Slots |-> IdleCall]
    /\ nreq = 0
    /\ parse = ParseIdle
    /\ edit = EditIdle
    /\ page = PageIdle
    /\ \E u \in Urls : \E tier1 \in TierOutcomes :
       \E hasKey, wrote, unlink1, local, unlink2, unlink3 \in BOOLEAN :
         conv = [pc |-> "start", pdf |-> PdfAt(u), hasKey |-> hasKey, wrote |-> wrote,
                 tier1 |-> tier1, unlink1 |-> unlink1, local |-> local,
                 unlink2 |-> unlink2, unlink3 |-> unlink3, result |-> None]

\* One call of convertPdfToDocuments.
ConvertPdf ==
    /\ conv.pc = "start"
    /\ conv' = [conv EXCEPT !.pc = "done",
                            !.result = Some(convertPdfToDocuments(
                                conv.pdf, conv.hasKey, conv.wrote, conv.tier1,
                                conv.unlink1, conv.local, conv.unlink2, conv.unlink3))]
    /\ UNCHANGED <<env, papers, vectors, qaLog, call, nreq, parse, edit, page>>

NextExtract == ConvertPdf

SpecExtract == InitExtract /\ [][NextExtract]_vars

(***************************************************************************)
(* One /take_notes request whose caller gives up after 60 s.               *)
(***************************************************************************)
\* index.tsx 90-91, 103: the page's timer fires while its fetch is pending and
\* controller.abort() ends the fetch on the caller's side.  The handler and
\* takeNotes (server.ts 21-39, 187-261) take no signal and watch for no
\* closed connection: nothing in the request's state changes but the record
\* that the caller has gone.
ClientAbort(s) ==
    LET c == call[s] IN
    /\ Running
    /\ c.kind = "take_notes"
    /\ c.pc \notin {"idle", "done"}
    /\ ~\E i \in 1..Len(c.trace) : c.trace[i].op = "abort"
    /\ call' = [call EXCEPT ![s] = Invoked(c, "abort", TRUE)]
    /\ UNCHANGED <<env, papers, vectors, qaLog, nreq, parse, edit, conv, page>>

InitCancel ==
    /\ env \in [OPENAI_API_KEY : BOOLEAN, UNSTRUCTURED_API_KEY : BOOLEAN]
    /\ papers = [u \in Urls |-> None]
    /\ vectors = <<>>
    /\ qaLog = <<>>
    /\ call = [s \in Slots |-> IdleCall]
    /\ nreq = MaxRequests - 1
    /\ parse = ParseIdle
    /\ edit = EditIdle
    /\ conv = ConvIdle
    /\ page = PageIdle

NextCancel ==
    \E s \in Slots :
        \/ HandlerTakeNotes(s)
        \/ Release(s)
        \/ TN_Start(s)
        \/ TN_Fetch(s)
        \/ TN_Edit(s)
        \/ TN_Extract(s)
        \/ TN_Generate(s)
        \/ TN_Persist(s)
        \/ TN_Index(s)
        \/ ClientAbort(s)

SpecCancel == InitCancel /\ [][NextCancel]_vars

(***************************************************************************)
(* The web page (index.tsx 48-293).  What the server sends back for a      *)
(* request is a result for the paperUrl of that request, or an error; each *)
(* result carries, as a tag, the paperUrl it is about.                     *)
(***************************************************************************)
FetchErrors == {"Server error: 500", "The operation was aborted."}

InitPage ==
    /\ env = [OPENAI_API_KEY |-> TRUE, UNSTRUCTURED_API_KEY |-> TRUE]
    /\ papers = [u \in Urls |-> None]
    /\ vectors = <<>>
    /\ qaLog = <<>>
    /\ call = [s \in Slots |-> IdleCall]
    /\ nreq = 0
    /\ parse = ParseIdle
    /\ edit = EditIdle
    /\ conv = ConvIdle
    /\ page = PageIdle

\* onPaperSubmit up to its fetch (76-105); the button is disabled while
\* notesLoading (217).
PaperSubmit ==
    /\ ~page.notesLoading
    /\ \E u \in Urls, name \in Names :
         page' = [page EXCEPT !.submittedPaperData = Some([paperUrl |-> u, name |-> name]),
                              !.notes = None, !.answers = None,
                              !.notesError = None, !.qaError = None,
                              !.notesLoading = TRUE,
                              !.notesReq = Some([paperUrl |-> u])]
    /\ UNCHANGED <<env, papers, vectors, qaLog, call, nreq, parse, edit, conv>>

\* The fetch of onPaperSubmit settles (106-120): the notes are shown, or
\* the error of a failed, refused or aborted request.
NotesResponse ==
    /\ IsSome(page.notesReq)
    /\ \/ \E data \in NoteOutputs :
            page' = [page EXCEPT !.notes = Some([paperUrl |-> Get(page.notesReq).paperUrl,
                                                data |-> data]),
                                 !.notesLoading = FALSE, !.notesReq = None]
       \/ \E msg \in FetchErrors :
            page' = [page EXCEPT !.notesError = Some(msg),
                                 !.notesLoading = FALSE, !.notesReq = None]
    /\ UNCHANGED <<env, papers, vectors, qaLog, call, nreq, parse, edit, conv>>

\* onQuestionSubmit up to its fetch (123-146); the button is disabled while
\* qaLoading or without notes (263).  shown: the paper whose notes were on
\* the page when the question was sent.
QuestionSubmit ==
    /\ ~page.qaLoading /\ IsSome(page.notes)
    /\ IsSome(page.submittedPaperData)
    /\ page' = [page EXCEPT !.qaError = None, !.qaLoading = TRUE,
                            !.qaReq = Some([paperUrl |-> Get(page.submittedPaperData).paperUrl,
                                            shown |-> Get(page.notes).paperUrl])]
    /\ UNCHANGED <<env, papers, vectors, qaLog, call, nreq, parse, edit, conv>>

\* The fetch of onQuestionSubmit settles (147-161).
QaResponse ==
    /\ IsSome(page.qaReq)
    /\ \/ \E result \in AnswerOutputs :
            page' = [page EXCEPT !.answers = Some([paperUrl |-> Get(page.qaReq).paperUrl,
                                                  data |-> result]),
                                 !.qaLoading = FALSE, !.qaReq = None]
       \/ \E msg \in FetchErrors :
            page' = [page EXCEPT !.qaError = Some(msg),
                                 !.qaLoading = FALSE, !.qaReq = None]
    /\ UNCHANGED <<env, papers, vectors, qaLog, call, nreq, parse, edit, conv>>

NextPage == PaperSubmit \/ NotesResponse \/ QuestionSubmit \/ QaResponse

SpecPage == InitPage /\ [][NextPage]_vars

(***************************************************************************)
(* Properties.                                                             *)
(***************************************************************************)
\* The call made the collaborator invocation op, with that outcome.
Did(c, op, ok) == \E i \in 1..Len(c.trace) : c.trace[i] = [op |-> op, ok |-> ok]

\* The call invoked the collaborator op at all.
Attempted(c, op) == \E i \in 1..Len(c.trace) : c.trace[i].op = op

Response(status, error, data) == [status |-> status, error |-> error, data |-> data]

\* C1 (idempotency of takeNotes): a takeNotes call whose existence check
\* found a Paper at paperUrl ends at once with exactly the notes stored at
\* that URL as its 200 response, having invoked nothing but getPaper: no
\* fetch, page deletion, extraction, note generation, addPaper or indexing.
C1_Idempotent ==
    \A s \in Slots :
        LET c == call[s] IN
        (c.kind = "take_notes" /\ IsSome(c.existingPaper)) =>
            /\ c.pc = "done"
            /\ papers[Url(c)] = c.existingPaper
            /\ c.outcome = Ok(Get(papers[Url(c)]).notes)
            /\ c.responses = << Response(200, "", Get(papers[Url(c)]).notes) >>
            /\ c.trace = << [op |-> "getPaper", ok |-> TRUE] >>

\* A second ingestion of a stored paper has returned its one stored note.
C1_Witness ==
    \E s \in Slots :
        /\ call[s].kind = "take_notes" /\ call[s].pc = "done"
        /\ IsSome(call[s].existingPaper)
        /\ Len(Get(call[s].existingPaper).notes) = 1
        /\ call[s].responses[1].status = 200

AbortOps == {"fetch", "deletePages", "extract", "generate"}

\* C2 (no partial persistence on abort): once fetch, page deletion,
\* extraction or note generation has failed in a takeNotes call, the call is
\* over with a 500 error response and has invoked neither addPaper nor
\* vectorStore.addDocuments.
C2_NoPartialPersistence ==
    \A s \in Slots :
        LET c == call[s] IN
        (c.kind = "take_notes" /\ \E op \in AbortOps : Did(c, op, FALSE)) =>
            /\ c.pc = "done"
            /\ ~Get(c.outcome).ok
            /\ Len(c.responses) = 1 /\ c.responses[1].status = 500
            /\ ~Attempted(c, "addPaper")
            /\ ~Attempted(c, "addDocuments")

\* Note generation failed after a successful fetch and extraction.
C2_Witness ==
    \E s \in Slots :
        /\ call[s].kind = "take_notes" /\ call[s].pc = "done"
        /\ Did(call[s], "extract", TRUE)
        /\ Did(call[s], "generate", FALSE)
        /\ call[s].responses[1].error = "openai_failed"

\* C3 (persist before index): in a takeNotes call every
\* vectorStore.addDocuments attempt comes after a successful addPaper of the
\* same call, with the Paper stored; a failed addPaper ends the call with
\* the error database_failed and no indexing attempt.
C3_PersistBeforeIndex ==
    \A s \in Slots :
        LET c == call[s] IN
        c.kind = "take_notes" =>
            /\ \A i \in 1..Len(c.trace) :
                 c.trace[i].op = "addDocuments" =>
                    \E j \in 1..(i - 1) : c.trace[j] = [op |-> "addPaper", ok |-> TRUE]
            /\ c.pc = "tn_index" =>
                 /\ Did(c, "addPaper", TRUE)
                 /\ IsSome(papers[Url(c)])
            /\ Did(c, "addPaper", FALSE) =>
                 /\ c.pc = "done"
                 /\ c.outcome = Err("database_failed")
                 /\ c.responses = << Response(500, "database_failed", <<>>) >>
                 /\ ~Attempted(c, "addDocuments")

\* A call has indexed its documents after saving the paper.
C3_Witness ==
    \E s \in Slots :
        /\ call[s].kind = "take_notes"
        /\ Did(call[s], "addPaper", TRUE)
        /\ Did(call[s], "addDocuments", TRUE)
        /\ Len(vectors) > 0

\* C4 (non-fatal indexing): the step in which vectorStore.addDocuments fails
\* after a successful addPaper ends the call with a 200 response carrying
\* the generated notes, and leaves the Paper stored at paperUrl, and the
\* whole store, as they were.
C4_NonFatalIndexing ==
    [][ \A s \in Slots :
          ( /\ call[s].pc = "tn_index"
            /\ Did(call'[s], "addDocuments", FALSE) )
          => /\ Did(call[s], "addPaper", TRUE)
             /\ IsSome(papers[Url(call[s])])
             /\ papers' = papers
             /\ vectors' = vectors
             /\ call'[s].pc = "done"
             /\ call'[s].outcome = Ok(call[s].notes)
             /\ call'[s].responses = << Response(200, "", call[s].notes) >> ]_vars

\* Indexing failed and the call answered 200 with its one generated note.
C4_Witness ==
    \E s \in Slots :
        /\ call[s].kind = "take_notes" /\ call[s].pc = "done"
        /\ Did(call[s], "addDocuments", FALSE)
        /\ call[s].responses[1].status = 200
        /\ Len(call[s].responses[1].data) = 1
        /\ IsSome(papers[Url(call[s])])

\* No document of docs came from the vector index: the similarity search
\* threw or found nothing.
NoneRetrieved(docs) == \A i \in 1..Len(docs) : docs[i].source # "vector"

\* C5 (RAG degradation), as claimed: for a Paper that exists with notes, when
\* the similarity search throws or returns nothing, qaOnPaper goes on to load
\* the paper, calls the model with exactly one segment holding the Paper's
\* stored full text, and answers 200 whenever the model call succeeds.
C5_RagDegradation ==
    \A s \in Slots :
        LET c == call[s] IN
        (c.kind = "qa" /\ Attempted(c, "similaritySearch")) =>
            /\ (Did(c, "similaritySearch", FALSE) /\ c.pc = "done") =>
                  Attempted(c, "getPaper")
            /\ ( /\ IsSome(c.paper) /\ Len(Get(c.paper).notes) > 0
                 /\ IsSome(c.modelDocs) /\ NoneRetrieved(Get(c.modelDocs)) ) =>
                  /\ Get(c.modelDocs) =
                        << Doc(Get(c.paper).paper, "supabase-paper-fallback") >>
                  /\ (Did(c, "qaModel", TRUE) /\ c.pc = "done") =>
                        c.responses = << Response(200, "", c.answers) >>

\* C6 (QA-record persistence is non-fatal), as claimed: whenever the model
\* call of a qaOnPaper call succeeded, the finished call has answered 200
\* with the answer groupings, whatever the saveQa calls did.
C6_SaveQaNonFatal ==
    \A s \in Slots :
        LET c == call[s] IN
        (c.kind = "qa" /\ Did(c, "qaModel", TRUE) /\ c.pc = "done") =>
            c.responses = << Response(200, "", c.answers) >>

\* The pages of pdf whose numbers are not in gone, in order.
Without(pdf, gone) == SelectSeq(pdf, LAMBDA pg : pg \notin gone)

\* C7 (page-deletion offset law), as claimed: deleting pages [3, 5] from a
\* document of at least 6 pages leaves the original pages except 3 and 6.
C7_OffsetLawClaimed ==
    ( /\ edit.pc = "done"
      /\ edit.pagesToDelete = << Num(3), Num(5) >>
      /\ Len(edit.pdf) >= 6 )
    => /\ edit.ok
       /\ edit.doc = Without(edit.pdf, {3, 6})

\* C7, amended: deleting pages [3, 5] from a document of at least 6 pages
\* removes original page 3 and then the page at index 5 - 2 of the shrunk
\* document, which is original page 5: the surviving pages are the original
\* pages except 3 and 5.
C7_OffsetLaw ==
    ( /\ edit.pc = "done"
      /\ edit.pagesToDelete = << Num(3), Num(5) >>
      /\ Len(edit.pdf) >= 6 )
    => /\ edit.ok
       /\ edit.doc = Without(edit.pdf, {3, 5})

\* deletePagesFromPdf has run on [3, 5] and a document of 6 or more pages.
C7_Witness ==
    /\ edit.pc = "done"
    /\ edit.pagesToDelete = << Num(3), Num(5) >>
    /\ Len(edit.pdf) >= 6
    /\ Len(edit.doc) = Len(edit.pdf) - 2

\* C8 (input validation of pagesToDelete), as claimed: the list the
\* /take_notes handler hands to takeNotes holds only positive integers, and
\* "1, x, -2, 4" reaches takeNotes as [1, 4].
C8_OnlyPositivePages ==
    parse.pc = "called" =>
        /\ \A i \in 1..Len(parse.handed) :
             ~IsNaN(parse.handed[i]) /\ Val(parse.handed[i]) > 0
        /\ parse.pagesToDelete =
              Some(<<"1", ",", " ", "x", ",", " ", "-", "2", ",", " ", "4">>)
           => parse.handed = << Num(1), Num(4) >>

\* C9 (non-empty notes invariant), as claimed: every stored Paper has at
\* least one note, and a takeNotes call whose note generation returned no
\* note never calls addPaper and does not end in success.
C9_NotesNeverEmpty ==
    /\ \A u \in Urls : IsSome(papers[u]) => Len(Get(papers[u]).notes) > 0
    /\ \A s \in Slots :
         LET c == call[s] IN
         (c.kind = "take_notes" /\ Did(c, "generate", TRUE) /\ Len(c.notes) = 0) =>
            /\ ~Attempted(c, "addPaper")
            /\ c.pc = "done" => ~Get(c.outcome).ok

\* C10 (paper not found), as claimed: a qaOnPaper call that loaded no Paper,
\* or a Paper whose notes sequence is empty, is over with the error
\* "No notes found", without a model call and without a saveQa call.
C10_PaperNotFound ==
    \A s \in Slots :
        LET c == call[s] IN
        ( /\ c.kind = "qa" /\ Attempted(c, "getPaper")
          /\ (~IsSome(c.paper) \/ Len(Get(c.paper).notes) = 0) ) =>
            /\ c.pc = "done"
            /\ c.responses = << Response(500, "No notes found", <<>>) >>
            /\ ~Attempted(c, "qaModel")
            /\ ~Attempted(c, "saveQa")

\* The Unstructured tier was configured and its call won the race.
Tier1Succeeded == conv.hasKey /\ conv.tier1 = "ok"

\* C11 (as claimed): whenever the local parser would succeed on the input,
\* convertPdfToDocuments succeeds; when tier 1 is unconfigured, throws or times
\* out the local parser's segments are returned; extraction fails only if both
\* tiers fail; a successful tier 1 result is returned without running the
\* local parser.  (Runs whose staging write succeeded.)
C11_ExtractionFallback ==
    (conv.pc = "done" /\ conv.wrote) =>
        LET r == Get(conv.result) IN
        /\ conv.local => r.ok
        /\ (conv.local /\ ~Tier1Succeeded) => r.documents = LocalParse(conv.pdf)
        /\ ~r.ok => (~conv.local /\ ~Tier1Succeeded)
        /\ Tier1Succeeded => (/\ r.ok
                              /\ r.documents = UnstructuredParse(conv.pdf)
                              /\ ~r.ranLocal)

\* The outcomes of the unlink calls the run made, in order (163, 176, 182).
UnlinksAttempted ==
    (IF Tier1Succeeded THEN <<conv.unlink1>> ELSE <<>>)
    \o (IF Tier1Succeeded /\ conv.unlink1 THEN <<>>
        ELSE IF conv.local /\ conv.unlink2 THEN <<conv.unlink2>>
        ELSE IF conv.local THEN <<conv.unlink2, conv.unlink3>>
        ELSE <<conv.unlink3>>)

\* C12 (as claimed): whenever convertPdfToDocuments terminates after having
\* written the staging file, the staging file no longer exists, whatever the
\* tier outcomes and whether the unlink calls succeed or fail.
C12_StagingCleanupClaimed ==
    (conv.pc = "done" /\ conv.wrote) => ~Get(conv.result).staged

\* C12 (amended): a run that wrote the staging file attempts at least one
\* unlink before it terminates, and on termination the staging file is gone
\* exactly when the last unlink it attempted succeeded.
C12_StagingCleanup ==
    (conv.pc = "done" /\ conv.wrote) =>
        /\ Len(UnlinksAttempted) >= 1
        /\ Get(conv.result).staged = ~UnlinksAttempted[Len(UnlinksAttempted)]

\* Both tiers failed and the unlink of the catch block succeeded.
C12_Witness ==
    /\ conv.pc = "done" /\ conv.wrote
    /\ ~Tier1Succeeded /\ ~conv.local /\ conv.unlink3
    /\ ~Get(conv.result).staged
    /\ Get(conv.result).error = "pdf_parse_failed"

\* The messages of the errors the code raises itself, one per error kind:
\* configuration (193), download (205), pdf edit (214), extraction (183),
\* generation (229), persistence (250), paper not found (index.tsx 348).
ErrorKinds ==
    {"Missing OPENAI_API_KEY", "download_pdf_failed", "pdf_edit_failed",
     "pdf_parse_failed", "openai_failed", "database_failed", "No notes found"}

\* C13 (as claimed): every failure that reaches an HTTP handler is one of the
\* fixed error kinds; the error of a 500 response is never the raw error of a
\* collaborator (store connection or lookup, similarity search, model call,
\* QA-record save).
C13_ErrorKindClosure ==
    \A s \in Slots : \A i \in 1..Len(call[s].responses) :
        call[s].responses[i].status = 500 => call[s].responses[i].error \in ErrorKinds

\* The Paper a takeNotes call is to leave in the store: its name, the
\* extracted segments joined in order by blank lines, and its notes.
OwnPaper(c) ==
    [name |-> Get(c.body.name),
     paper |-> Join([i \in 1..Len(c.documents) |-> c.documents[i].pageContent],
                    <<NL, NL>>),
     notes |-> c.notes]

\* C14 (as claimed): under any interleaving of two takeNotes calls for the
\* same URL, addPaper is invoked for it at most once, and the stored notes
\* equal the notes returned by every successful call.
C14_CreatedOnceClaimed ==
    /\ \A s, t \in Slots :
          (s # t /\ Did(call[s], "addPaper", TRUE) /\ Did(call[t], "addPaper", TRUE))
              => Url(call[s]) # Url(call[t])
    /\ \A s \in Slots :
          (/\ call[s].kind = "take_notes" /\ call[s].pc = "done"
           /\ IsSome(call[s].outcome) /\ Get(call[s].outcome).ok)
              => /\ IsSome(papers[Url(call[s])])
                 /\ Get(papers[Url(call[s])]).notes = Get(call[s].outcome).value

\* C14 (amended): a stored Paper changes only by the addPaper of a takeNotes
\* call whose existence check found no Paper, that is, of a call that looked
\* before the Paper was created; that addPaper replaces the stored Paper by
\* the call's own record (last write wins).
C14_CreatedOnce ==
    [][\A u \in Urls :
         (IsSome(papers[u]) /\ papers'[u] # papers[u]) =>
             \E s \in Slots :
                 /\ call[s].pc = "tn_persist" /\ Url(call[s]) = u
                 /\ ~IsSome(call[s].existingPaper)
                 /\ Did(call'[s], "addPaper", TRUE)
                 /\ papers'[u] = Some(OwnPaper(call[s]))]_vars

\* Two calls for the same URL have both saved; the store holds the later
\* record, which differs from the earlier call's.
C14_Witness ==
    \E s, t \in Slots :
        /\ s # t
        /\ Did(call[s], "addPaper", TRUE) /\ Did(call[t], "addPaper", TRUE)
        /\ Url(call[s]) = Url(call[t])
        /\ papers[Url(call[s])] = Some(OwnPaper(call[s]))
        /\ OwnPaper(call[t]) # OwnPaper(call[s])

\* C15: when the language-model credential is absent a takeNotes call fails
\* at once with the configuration error, before any store lookup, fetch,
\* edit, extraction, model call or write; the absence of the extraction
\* credential is no error and only selects the local parser.
C15_ConfigPrecondition ==
    \A s \in Slots :
        LET c == call[s] IN
        c.kind = "take_notes" =>
            /\ (/\ ~env.OPENAI_API_KEY
                /\ IsSome(c.body.paperUrl) /\ IsSome(c.body.name)
                /\ c.pc # "tn_start")
                   => /\ c.pc = "done"
                      /\ c.outcome = Err("Missing OPENAI_API_KEY")
                      /\ c.responses = <<Response(500, "Missing OPENAI_API_KEY", <<>>)>>
                      /\ c.trace = <<>>
                      /\ c.pdf = <<>> /\ c.documents = <<>> /\ c.notes = <<>>
            /\ (~env.UNSTRUCTURED_API_KEY /\ Did(c, "extract", TRUE))
                   => c.documents = LocalParse(c.pdf)
            /\ (~env.UNSTRUCTURED_API_KEY /\ Did(c, "extract", FALSE))
                   => Get(c.outcome).error \in {"pdf_parse_failed", "raw_write_error"}

\* A call made without the language-model credential has failed.
C15_Witness ==
    /\ ~env.OPENAI_API_KEY
    /\ \E s \in Slots :
          /\ call[s].kind = "take_notes" /\ call[s].pc = "done"
          /\ call[s].responses = <<Response(500, "Missing OPENAI_API_KEY", <<>>)>>
          /\ call[s].trace = <<>>

\* A required field of the request body is missing (server.ts 24, 44).
MissingFields(c) ==
    \/ ~IsSome(c.body.paperUrl)
    \/ c.kind = "take_notes" /\ ~IsSome(c.body.name)
    \/ c.kind = "qa" /\ ~IsSome(c.body.question)

\* C16: a request gets at most one response and a finished request exactly
\* one; the response is 400 with an error exactly when a required field is
\* missing, and then the pipeline was not invoked; it is 500 with the error
\* exactly when the pipeline or QA call failed; it is 200 with the result
\* array exactly when the call succeeded.
C16_StatusMapping ==
    \A s \in Slots :
        LET c == call[s] IN
        c.kind # "idle" =>
            /\ Len(c.responses) = (IF c.pc = "done" THEN 1 ELSE 0)
            /\ MissingFields(c) => c.pc = "done"
            /\ c.pc = "done" =>
                  LET r == c.responses[1] IN
                  /\ r.status \in {200, 400, 500}
                  /\ (r.status = 400) = MissingFields(c)
                  /\ r.status = 400 =>
                        (r.error # "" /\ c.outcome = None /\ c.trace = <<>>)
                  /\ (r.status = 500) = (IsSome(c.outcome) /\ ~Get(c.outcome).ok)
                  /\ r.status = 500 =>
                        (r.error # "" /\ r.error = Get(c.outcome).error /\ r.data = <<>>)
                  /\ (r.status = 200) = (IsSome(c.outcome) /\ Get(c.outcome).ok)
                  /\ r.status = 200 =>
                        (r.error = "" /\ r.data = Get(c.outcome).value)

\* A request with a missing field was refused with 400 before the pipeline
\* was invoked.
C16_Witness ==
    \E s \in Slots :
        /\ call[s].kind = "take_notes" /\ call[s].pc = "done"
        /\ ~IsSome(call[s].body.name)
        /\ Len(call[s].responses) = 1 /\ call[s].responses[1].status = 400
        /\ call[s].outcome = None /\ call[s].trace = <<>>

\* C17 (as claimed): once the caller's 60 s timer has fired and it has aborted
\* its request, the ingestion is aborted too: it makes no later write to the
\* store or to the index.
C17_CancellationPropagates ==
    \A s \in Slots :
        \A i, j \in 1..Len(call[s].trace) :
            (i < j /\ call[s].trace[i].op = "abort")
                => ~(call[s].trace[j].op \in {"addPaper", "addDocuments"}
                     /\ call[s].trace[j].ok)

\* A takeNotes call that has returned successfully.
Succeeded(c) ==
    /\ c.kind = "take_notes" /\ c.pc = "done"
    /\ IsSome(c.outcome) /\ Get(c.outcome).ok

\* C18 (as claimed): whenever takeNotes returns successfully for paperUrl, a
\* Paper exists at paperUrl whose notes equal the returned notes and, for a
\* call that extracted, whose full text is the order-preserving
\* concatenation of the extracted segments.
C18_SuccessPostconditionClaimed ==
    \A s \in Slots :
        Succeeded(call[s]) =>
            /\ IsSome(papers[Url(call[s])])
            /\ Get(papers[Url(call[s])]).notes = Get(call[s].outcome).value
            /\ ~IsSome(call[s].existingPaper)
                  => Get(papers[Url(call[s])]).paper = OwnPaper(call[s]).paper

\* C18 (amended): a takeNotes call ends in exactly one of success or error;
\* whenever it returns successfully a Paper exists at paperUrl; its successful
\* addPaper stores its own record (its notes, and the extracted segments
\* joined in order); and if that record is still the stored one when the call
\* returns, the returned notes are the stored notes.
C18_SuccessPostcondition ==
    /\ [](\A s \in Slots :
            /\ (call[s].kind = "take_notes" /\ call[s].pc = "done" /\ ~MissingFields(call[s]))
                  => IsSome(call[s].outcome)
            /\ Succeeded(call[s]) => IsSome(papers[Url(call[s])]))
    /\ [][\A s \in Slots :
            /\ (call[s].pc = "tn_persist" /\ Did(call'[s], "addPaper", TRUE))
                  => papers'[Url(call[s])] = Some(OwnPaper(call[s]))
            /\ (/\ call[s].pc = "tn_index" /\ call'[s].pc = "done"
                /\ papers[Url(call[s])] = Some(OwnPaper(call[s])))
                  => /\ Succeeded(call'[s])
                     /\ papers'[Url(call[s])] = Some(OwnPaper(call[s]))
                     /\ Get(call'[s].outcome).value = Get(papers'[Url(call[s])]).notes]_vars

\* A call that extracted, generated and saved has returned, and the store
\* holds its record.
C18_Witness ==
    \E s \in Slots :
        /\ Succeeded(call[s]) /\ ~IsSome(call[s].existingPaper)
        /\ Len(call[s].documents) >= 2
        /\ papers[Url(call[s])] = Some(OwnPaper(call[s]))
        /\ Get(call[s].outcome).value = call[s].notes

\* The number of saveQa calls of c that succeeded.
SavesDone(c) ==
    Cardinality({i \in 1..Len(c.trace) : c.trace[i] = [op |-> "saveQa", ok |-> TRUE]})

\* A qaOnPaper call that has returned successfully.
Answered(c) ==
    /\ c.kind = "qa" /\ c.pc = "done"
    /\ IsSome(c.outcome) /\ Get(c.outcome).ok

\* C19: the QA log only grows, one record per successful saveQa; a qaOnPaper
\* call that returns n groupings has made exactly n saves, none failed, and
\* the log holds for each grouping a record with the asked question, the
\* grouping's answer and follow-ups and the serialized context that was
\* given to the model; a call whose model call failed makes no save.
C19_QaLogAppendOnly ==
    /\ [](\A s \in Slots :
            LET c == call[s] IN
            /\ Answered(c) =>
                  /\ SavesDone(c) = Len(Get(c.outcome).value)
                  /\ ~Did(c, "saveQa", FALSE)
                  /\ \A i \in 1..Len(Get(c.outcome).value) :
                        \E j \in 1..Len(qaLog) :
                            qaLog[j] =
                              [question |-> Get(c.body.question),
                               answer |-> Get(c.outcome).value[i].answer,
                               context |->
                                   Join([k \in 1..Len(Get(c.modelDocs)) |->
                                            Get(c.modelDocs)[k].pageContent], <<NL, NL>>),
                               followupQuestions |->
                                   Get(c.outcome).value[i].followupQuestions]
            /\ Did(c, "qaModel", FALSE) => ~Attempted(c, "saveQa"))
    /\ [][/\ Len(qaLog') \in {Len(qaLog), Len(qaLog) + 1}
          /\ SubSeq(qaLog', 1, Len(qaLog)) = qaLog
          /\ (Len(qaLog') = Len(qaLog) + 1) =
                (\E s \in Slots : SavesDone(call'[s]) = SavesDone(call[s]) + 1)]_vars

\* A call that returned two groupings has saved two records.
C19_Witness ==
    \E s \in Slots :
        /\ Answered(call[s])
        /\ Len(Get(call[s].outcome).value) = 2
        /\ SavesDone(call[s]) = 2
        /\ Len(qaLog) = 2 /\ qaLog[1].answer # qaLog[2].answer

\* The list holds numbers in strictly ascending order.
StrictlyAscending(pages) ==
    /\ \A i \in 1..Len(pages) : ~IsNaN(pages[i])
    /\ \A i, j \in 1..Len(pages) : i < j => Val(pages[i]) < Val(pages[j])

\* Every page number of the list is a page of a document of n pages.
AllWithin(pages, n) == \A i \in 1..Len(pages) : Val(pages[i]) \in 1..n

\* C20: for a strictly ascending list of k page numbers in 1..n,
\* deletePagesFromPdf on a document of n pages leaves the n - k original
\* pages that are not in the list, in their order ("2,4" on 10 pages leaves
\* 1, 3, 5, 6, 7, 8, 9, 10); when an index pageNumber - offset falls outside
\* the current page range, as it does for an ascending list with a number
\* outside 1..n, the edit fails and takeNotes stops with pdf_edit_failed.
C20_DeletesRequested ==
    edit.pc = "done" =>
        LET pages == edit.pagesToDelete
            n == Len(edit.pdf)
        IN  /\ StrictlyAscending(pages) =>
                  /\ edit.ok = AllWithin(pages, n)
                  /\ edit.ok =>
                        /\ Len(edit.doc) = n - Len(pages)
                        /\ edit.doc = Without(edit.pdf,
                                              {Val(pages[i]) : i \in 1..Len(pages)})
            /\ (n = 10 /\ pages = <<Num(2), Num(4)>>)
                  => edit.doc = <<1, 3, 5, 6, 7, 8, 9, 10>>
            /\ edit.error = (IF edit.ok THEN "" ELSE "pdf_edit_failed")

\* "2,4" has been deleted from a document of 10 pages.
C20_Witness ==
    /\ edit.pc = "done" /\ edit.ok
    /\ Len(edit.pdf) = 10
    /\ edit.pagesToDelete = <<Num(2), Num(4)>>
    /\ Len(edit.doc) = 8

\* C21 (as claimed): in every state of the page the displayed notes and the
\* displayed answers are about the most recently submitted paper, and a
\* question in flight was sent while the notes of its paper were displayed.
C21_PageConsistency ==
    /\ IsSome(page.notes) =>
          /\ IsSome(page.submittedPaperData)
          /\ Get(page.notes).paperUrl = Get(page.submittedPaperData).paperUrl
    /\ IsSome(page.answers) =>
          /\ IsSome(page.submittedPaperData)
          /\ Get(page.answers).paperUrl = Get(page.submittedPaperData).paperUrl
    /\ IsSome(page.qaReq) => Get(page.qaReq).shown = Get(page.qaReq).paperUrl
====
